---- MODULE Spec2Model ----
(***************************************************************************)
(* Model of src/app.py: a LINE webhook bot that parses "location category  *)
(* budget" out of a text message, asks Gemini for recommendations, renders *)
(* them as a Flex carousel and replies.                                    *)
(*                                                                         *)
(* Strings whose characters matter (the message text and its tokens) are   *)
(* sequences of one-character strings.  String values are ASCII only, so   *)
(* the Chinese literals of the source are written as ASCII stand-ins, each *)
(* with the source literal in the comment above it.                        *)
(***************************************************************************)
EXTENDS Integers, Sequences, FiniteSets, TLC

VARIABLES pc, header, text, query, svcLog, fetched, stores, carousel, exc,
          log, replies, resp

vars == <<pc, header, text, query, svcLog, fetched, stores, carousel, exc,
          log, replies, resp>>

-----------------------------------------------------------------------------
(* Bounds *)

\* webhook deliveries handled concurrently
NumDeliveries == 2
\* longest message text, in characters
MaxLen == 7
\* longest list of recommendation records the service returns
MaxStores == 2

Deliveries == 1..NumDeliveries

-----------------------------------------------------------------------------
(* Python values, as json.loads produces them *)

PyNone == [t |-> "NoneType"]
PyBool(b) == [t |-> "bool", b |-> b]
PyInt(n) == [t |-> "int", i |-> n]
\* a float with one decimal digit, kept in tenths: PyFloat(45) is 4.5
PyFloat(n) == [t |-> "float", tenths |-> n]
PyStr(s) == [t |-> "str", s |-> s]
PyList(l) == [t |-> "list", l |-> l]
PyDict(d) == [t |-> "dict", d |-> d]

EmptyDict == PyDict([k \in {} |-> PyNone])

\* a test `stores == []` in place of `not stores`
Truthy_not_empty_list(v) == v # PyList(<<>>)

\* bool(v), as `not stores` evaluates it
Truthy(v) ==
    CASE v.t = "NoneType" -> FALSE
      [] v.t = "bool" -> v.b
      [] v.t = "int" -> v.i # 0
      [] v.t = "float" -> v.tenths # 0
      [] v.t = "str" -> v.s # ""
      [] v.t = "list" -> Len(v.l) > 0
      [] v.t = "dict" -> DOMAIN v.d # {}

\* str(v), as an f-string formats a scalar
PyFormat(v) ==
    CASE v.t = "NoneType" -> "None"
      [] v.t = "bool" -> IF v.b THEN "True" ELSE "False"
      [] v.t = "int" -> ToString(v.i)
      [] v.t = "float" -> ToString(v.tenths \div 10) \o "." \o ToString(v.tenths % 10)
      [] v.t = "str" -> v.s

\* d.get(k, default)
DictGet(d, k, default) == IF k \in DOMAIN d THEN d[k] ELSE default

\* the outcome of a call: a returned value or a raised exception
Return(v) == [raised |-> FALSE, value |-> v]
Raise(e) == [raised |-> TRUE, exc |-> e]

-----------------------------------------------------------------------------
(* The literals of the source *)

\* "不限"
DefaultBudget == <<"bu", "xian">>
\* "請輸入：地點 種類 價位\n例如：新竹 拉麵 300"
GuidanceText == "Please enter: location category budget\nExample: Hsinchu ramen 300"
\* "AI 找不到相關資料，請換個關鍵字試試。"
NoResultsText == "AI found no matching data, please try another keyword."
\* "系統忙碌中，請稍後再試。"
BusyText == "System busy, please try again later."
\* "未知店家"
UnknownStore == PyStr("unknown store")
\* "無地址"
NoAddress == PyStr("no address")
\* "⭐ "
StarPrefix == "* "
\* "美食推薦清單"
AltText == "food recommendation list"
MapUriPrefix == "[https://www.google.com/maps/search/?api=1&query=](https://www.google.com/maps/search/?api=1&query=)"

-----------------------------------------------------------------------------
(* Command parsing: msg.strip(), .replace(',', ' '), .split() *)

Whitespace == {" ", "\n"}

RECURSIVE lstrip(_)
lstrip(s) == IF s # <<>> /\ Head(s) \in Whitespace THEN lstrip(Tail(s)) ELSE s

RECURSIVE rstrip(_)
rstrip(s) ==
    IF s # <<>> /\ s[Len(s)] \in Whitespace
    THEN rstrip(SubSeq(s, 1, Len(s) - 1))
    ELSE s

strip(s) == rstrip(lstrip(s))

replace_comma(s) == [i \in 1..Len(s) |-> IF s[i] = "," THEN " " ELSE s[i]]

\* str.split() with no separator: runs of whitespace separate, no empty token
RECURSIVE split_scan(_, _, _)
split_scan(s, cur, out) ==
    IF s = <<>>
    THEN IF cur = <<>> THEN out ELSE Append(out, cur)
    ELSE IF Head(s) \in Whitespace
         THEN split_scan(Tail(s), <<>>, IF cur = <<>> THEN out ELSE Append(out, cur))
         ELSE split_scan(Tail(s), Append(cur, Head(s)), out)

\* str.split(' '): every single whitespace separates, empty tokens are kept
RECURSIVE split_each(_, _, _)
split_each(s, cur, out) ==
    IF s = <<>>
    THEN Append(out, cur)
    ELSE IF Head(s) \in Whitespace
         THEN split_each(Tail(s), <<>>, Append(out, cur))
         ELSE split_each(Tail(s), Append(cur, Head(s)), out)

split_keep_empty(s) == split_each(s, <<>>, <<>>)

split(s) == split_scan(s, <<>>, <<>>)

parse_inputs(msg_text) == split(replace_comma(strip(msg_text)))

has_query(inputs) == Len(inputs) >= 2

\* an off-by-one in the test for a third token
has_budget_off_by_one(inputs) == Len(inputs) > 3

has_budget(inputs) == Len(inputs) > 2

make_query(inputs) ==
    [location |-> inputs[1],
     food_type |-> inputs[2],
     budget |-> IF has_budget(inputs) THEN inputs[3] ELSE DefaultBudget]

NoQuery == [location |-> <<>>, food_type |-> <<>>, budget |-> <<>>]

-----------------------------------------------------------------------------
(* The recommendation fetcher *)

\* the prompt's three interpolated slots
make_prompt(q) == [location |-> q.location, food_type |-> q.food_type, budget |-> q.budget]

\* json.loads(response.text): the document, or JSONDecodeError on text that
\* is not JSON (markdown fences, prose, an empty answer)
json_loads(t) == IF t.wellformed THEN Return(t.doc) ELSE Raise("JSONDecodeError")

\* the body of the try block: the service call, then the parsing of its text
try_generate(svc) == IF svc.raised THEN svc ELSE json_loads(svc.value)

GeminiError(e) == [tag |-> "Gemini Error", detail |-> e]

ProcessError(e) == [tag |-> "Process Error", detail |-> e]

\* a log line that drops the exception
fetch_logged_no_detail(e) == <<GeminiError("")>>

\* what `except Exception` of the fetcher logs
fetch_logged(e) == <<GeminiError(e)>>

\* the fetcher without its try/except
get_gemini_recommendation_no_try(svc) == [result |-> try_generate(svc), logged |-> <<>>]

\* the fetcher's outcome (result) and what it logged, given the service's outcome
get_gemini_recommendation(svc) ==
    LET r == try_generate(svc)
    IN IF r.raised
       THEN [result |-> Return(PyList(<<>>)), logged |-> fetch_logged(r.exc)]
       ELSE [result |-> r, logged |-> <<>>]

-----------------------------------------------------------------------------
(* The card renderer *)

\* the address and description lines exchanged
bubble_body_swapped(d) ==
    <<DictGet(d, "name", UnknownStore),
      PyStr(StarPrefix \o PyFormat(DictGet(d, "rating", PyStr("N/A")))),
      DictGet(d, "description", PyStr("")),
      DictGet(d, "address", NoAddress)>>

bubble_body(d) ==
    <<DictGet(d, "name", UnknownStore),
      PyStr(StarPrefix \o PyFormat(DictGet(d, "rating", PyStr("N/A")))),
      DictGet(d, "address", NoAddress),
      DictGet(d, "description", PyStr(""))>>

\* store.get raises AttributeError on anything but a dict
create_bubble(store) ==
    IF store.t = "dict"
    THEN Return([type |-> "bubble",
                 size |-> "micro",
                 body |-> bubble_body(store.d),
                 uri |-> MapUriPrefix \o PyFormat(DictGet(store.d, "name", PyNone))])
    ELSE Raise("AttributeError")

RECURSIVE map_bubbles(_)
map_bubbles(l) ==
    IF l = <<>>
    THEN Return(<<>>)
    ELSE LET h == create_bubble(Head(l))
         IN IF h.raised
            THEN h
            ELSE LET rest == map_bubbles(Tail(l))
                 IN IF rest.raised THEN rest ELSE Return(<<h.value>> \o rest.value)

\* [create_bubble(s) for s in stores]: a list yields its elements, a dict its
\* keys and a str its characters (all of them str), anything else is not iterable
bubbles_of(v) ==
    CASE v.t = "list" -> map_bubbles(v.l)
      [] v.t = "dict" -> IF DOMAIN v.d = {} THEN Return(<<>>) ELSE Raise("AttributeError")
      [] v.t = "str" -> IF v.s = "" THEN Return(<<>>) ELSE Raise("AttributeError")
      [] OTHER -> Raise("TypeError")

make_carousel(bubbles) == [type |-> "carousel", contents |-> bubbles]

-----------------------------------------------------------------------------
(* Messages and the messaging platform *)

TextMessage(t) == [type |-> "text", text |-> t]

FlexSendMessage(alt, contents) == [type |-> "flex", alt_text |-> alt, contents |-> contents]

\* event.reply_token: the platform issues one token per event
reply_token(r) == r

\* line_bot_api.reply_message(token, msg): the call is recorded with whether it
\* returned (ok) or raised LineBotApiError
reply_message(reps, token, msg, ok) ==
    [reps EXCEPT ![token] = Append(@, [msg |-> msg, ok |-> ok])]

-----------------------------------------------------------------------------
(* Signature verification *)

\* the secret of LINE_CHANNEL_SECRET
LINE_CHANNEL_SECRET == "channel-secret"

SigningKeys == {LINE_CHANNEL_SECRET, "forged-key"}

\* a symbolic MAC: equal exactly when key and body are
Hmac(key, body) == <<key, body>>

Tampered == <<"tampered">>

Headers(body) ==
    {[present |-> FALSE]} \cup
    {[present |-> TRUE, mac |-> Hmac(k, b)] : k \in SigningKeys, b \in {body, Tampered}}

\* a check of the key that forgets the body
validate_signature_key_only(body, signature) == signature[1] = LINE_CHANNEL_SECRET

\* handler.handle raises InvalidSignatureError unless this holds
validate_signature(body, signature) == signature = Hmac(LINE_CHANNEL_SECRET, body)

-----------------------------------------------------------------------------
(* Inputs *)

\* the characters of the exhaustively enumerated texts
Alphabet == {"a", ",", " "}

TextsUpTo(n) == UNION {[1..k -> Alphabet] : k \in 0..n}

\* a few texts with 1, 2 and 3 tokens, with the other whitespace and letter
SampleTexts == {<<"a">>, <<"a", ",", "b">>, <<"b", " ", "a", "\n", "a">>}

AllTexts == TextsUpTo(MaxLen) \cup SampleTexts

Fields == {"name", "rating", "address", "description"}

FieldVals(k) ==
    CASE k = "name" -> {PyStr("A"), PyStr("B")}
      [] k = "rating" -> {PyFloat(45), PyInt(4)}
      [] k = "address" -> {PyStr("addr")}
      [] k = "description" -> {PyStr("tasty")}

AnyFieldVal == UNION {FieldVals(k) : k \in Fields}

\* every record with any subset of the four fields
RecordDicts ==
    UNION {{d \in [S -> AnyFieldVal] : \A k \in S : d[k] \in FieldVals(k)} : S \in SUBSET Fields}

FullRecord ==
    PyDict([name |-> PyStr("A"), rating |-> PyFloat(45),
            address |-> PyStr("addr"), description |-> PyStr("tasty")])

\* what a list may hold: records, and elements that are no object
Elements == {PyDict(d) : d \in RecordDicts} \cup {PyInt(7), PyStr("x")}

ListsUpTo(n) == UNION {[1..k -> Elements] : k \in 0..n}

\* JSON documents that are no list
ScalarDocs ==
    {PyNone, PyInt(0), PyStr(""), PyBool(FALSE), EmptyDict,
     PyInt(5), PyStr("x"), PyBool(TRUE), FullRecord}

AllDocs == {PyList(l) : l \in ListsUpTo(MaxStores)} \cup ScalarDocs

SampleDocs == {PyList(<<>>), PyList(<<FullRecord>>), PyList(<<FullRecord, PyInt(7)>>)}

\* what model.generate_content / response.text can do: raise, or give a text
\* that is JSON for one of docs, or a text that is no JSON
ServiceOutcomes(docs) ==
    {Raise("DeadlineExceeded"), Raise("ValueError"), Return([wellformed |-> FALSE])}
    \cup {Return([wellformed |-> TRUE, doc |-> v]) : v \in docs}

-----------------------------------------------------------------------------
(* State *)

NoCarousel == [type |-> "none"]

NoExc == [name |-> "", at |-> ""]

NotFetched == [called |-> FALSE]

Init ==
    /\ pc = [r \in Deliveries |-> "idle"]
    /\ header = [r \in Deliveries |-> [present |-> FALSE]]
    /\ text = [r \in Deliveries |-> <<>>]
    /\ query = [r \in Deliveries |-> NoQuery]
    /\ svcLog = [r \in Deliveries |-> <<>>]
    /\ fetched = [r \in Deliveries |-> NotFetched]
    /\ stores = [r \in Deliveries |-> PyNone]
    /\ carousel = [r \in Deliveries |-> NoCarousel]
    /\ exc = [r \in Deliveries |-> NoExc]
    /\ log = [r \in Deliveries |-> <<>>]
    /\ replies = [t \in Deliveries |-> <<>>]
    /\ resp = [r \in Deliveries |-> 0]

\* the platform posts a delivery: a body carrying one text event, and a header
Deliver(r, texts) ==
    /\ pc[r] = "idle"
    /\ \E body \in texts : \E h \in Headers(body) :
          /\ text' = [text EXCEPT ![r] = body]
          /\ header' = [header EXCEPT ![r] = h]
    /\ pc' = [pc EXCEPT ![r] = "received"]
    /\ UNCHANGED <<query, svcLog, fetched, stores, carousel, exc, log, replies, resp>>

\* callback(): a missing header is Flask's 400 (KeyError on request.headers),
\* InvalidSignatureError is abort(400), otherwise the event goes to handle_message
Callback(r) ==
    /\ pc[r] = "received"
    /\ IF header[r].present /\ validate_signature(text[r], header[r].mac)
       THEN /\ pc' = [pc EXCEPT ![r] = "verified"]
            /\ UNCHANGED resp
       ELSE /\ pc' = [pc EXCEPT ![r] = "done"]
            /\ resp' = [resp EXCEPT ![r] = 400]
    /\ UNCHANGED <<header, text, query, svcLog, fetched, stores, carousel, exc, log, replies>>

\* handle_message, up to the branch on len(inputs)
HandleMessage(r) ==
    /\ pc[r] = "verified"
    /\ LET inputs == parse_inputs(text[r])
       IN IF has_query(inputs)
          THEN /\ query' = [query EXCEPT ![r] = make_query(inputs)]
               /\ pc' = [pc EXCEPT ![r] = "fetching"]
          ELSE /\ UNCHANGED query
               /\ pc' = [pc EXCEPT ![r] = "guidance"]
    /\ UNCHANGED <<header, text, svcLog, fetched, stores, carousel, exc, log, replies, resp>>

\* the else branch: the guidance reply, outside any try; an exception of
\* reply_message leaves handle_message and callback, which Flask answers with 500
ReplyGuidance(r) ==
    /\ pc[r] = "guidance"
    /\ \E ok \in BOOLEAN :
          /\ replies' = reply_message(replies, reply_token(r), TextMessage(GuidanceText), ok)
          /\ resp' = [resp EXCEPT ![r] = IF ok THEN 200 ELSE 500]
    /\ pc' = [pc EXCEPT ![r] = "done"]
    /\ UNCHANGED <<header, text, query, svcLog, fetched, stores, carousel, exc, log>>

\* stores = get_gemini_recommendation(location, food_type, budget)
Fetch(r, docs) ==
    /\ pc[r] = "fetching"
    /\ \E svc \in ServiceOutcomes(docs) :
          LET g == get_gemini_recommendation(svc)
          IN /\ svcLog' = [svcLog EXCEPT ![r] = Append(@, [prompt |-> make_prompt(query[r]), outcome |-> svc])]
             /\ fetched' = [fetched EXCEPT ![r] = [called |-> TRUE, result |-> g.result]]
             /\ log' = [log EXCEPT ![r] = @ \o g.logged]
             /\ IF g.result.raised
                THEN /\ exc' = [exc EXCEPT ![r] = [name |-> g.result.exc, at |-> "fetch"]]
                     /\ pc' = [pc EXCEPT ![r] = "except"]
                     /\ UNCHANGED stores
                ELSE /\ stores' = [stores EXCEPT ![r] = g.result.value]
                     /\ pc' = [pc EXCEPT ![r] = "fetched"]
                     /\ UNCHANGED exc
    /\ UNCHANGED <<header, text, query, carousel, resp, replies>>

\* if not stores: reply the "no results" text and return
ReplyNoResults(r) ==
    /\ pc[r] = "fetched"
    /\ ~Truthy(stores[r])
    /\ \E ok \in BOOLEAN :
          /\ replies' = reply_message(replies, reply_token(r), TextMessage(NoResultsText), ok)
          /\ IF ok
             THEN /\ resp' = [resp EXCEPT ![r] = 200]
                  /\ pc' = [pc EXCEPT ![r] = "done"]
                  /\ UNCHANGED exc
             ELSE /\ exc' = [exc EXCEPT ![r] = [name |-> "LineBotApiError", at |-> "reply"]]
                  /\ pc' = [pc EXCEPT ![r] = "except"]
                  /\ UNCHANGED resp
    /\ UNCHANGED <<header, text, query, svcLog, fetched, stores, carousel, log>>

\* bubbles = [create_bubble(s) for s in stores]; carousel = {...}
Render(r) ==
    /\ pc[r] = "fetched"
    /\ Truthy(stores[r])
    /\ LET b == bubbles_of(stores[r])
       IN IF b.raised
          THEN /\ exc' = [exc EXCEPT ![r] = [name |-> b.exc, at |-> "render"]]
               /\ pc' = [pc EXCEPT ![r] = "except"]
               /\ UNCHANGED carousel
          ELSE /\ carousel' = [carousel EXCEPT ![r] = make_carousel(b.value)]
               /\ pc' = [pc EXCEPT ![r] = "rendered"]
               /\ UNCHANGED exc
    /\ UNCHANGED <<header, text, query, svcLog, fetched, stores, log, replies, resp>>

\* reply_message(event.reply_token, FlexSendMessage(...)), inside the try
ReplyCarousel(r) ==
    /\ pc[r] = "rendered"
    /\ \E ok \in BOOLEAN :
          /\ replies' = reply_message(replies, reply_token(r), FlexSendMessage(AltText, carousel[r]), ok)
          /\ IF ok
             THEN /\ resp' = [resp EXCEPT ![r] = 200]
                  /\ pc' = [pc EXCEPT ![r] = "done"]
                  /\ UNCHANGED exc
             ELSE /\ exc' = [exc EXCEPT ![r] = [name |-> "LineBotApiError", at |-> "reply"]]
                  /\ pc' = [pc EXCEPT ![r] = "except"]
                  /\ UNCHANGED resp
    /\ UNCHANGED <<header, text, query, svcLog, fetched, stores, carousel, log>>

\* except Exception as e: log it and reply the "system busy" text; an
\* exception of this reply_message leaves handle_message
ExceptReply(r) ==
    /\ pc[r] = "except"
    /\ log' = [log EXCEPT ![r] = Append(@, ProcessError(exc[r].name))]
    /\ \E ok \in BOOLEAN :
          /\ replies' = reply_message(replies, reply_token(r), TextMessage(BusyText), ok)
          /\ resp' = [resp EXCEPT ![r] = IF ok THEN 200 ELSE 500]
    /\ pc' = [pc EXCEPT ![r] = "done"]
    /\ UNCHANGED <<header, text, query, svcLog, fetched, stores, carousel, exc>>

\* the steps of handle_message after the fetch
Finish(r) ==
    \/ ReplyGuidance(r)
    \/ ReplyNoResults(r)
    \/ Render(r)
    \/ ReplyCarousel(r)
    \/ ExceptReply(r)

\* concurrent deliveries, a few texts and documents
Next ==
    \E r \in Deliveries :
        \/ Deliver(r, SampleTexts)
        \/ Callback(r)
        \/ HandleMessage(r)
        \/ Fetch(r, SampleDocs)
        \/ Finish(r)

Spec == Init /\ [][Next]_vars

\* one delivery, every text up to MaxLen
NextParse ==
    \/ Deliver(1, AllTexts)
    \/ Callback(1)
    \/ HandleMessage(1)
    \/ Fetch(1, SampleDocs)
    \/ Finish(1)

SpecParse == Init /\ [][NextParse]_vars

\* one delivery, every document up to MaxStores records
NextRender ==
    \/ Deliver(1, SampleTexts)
    \/ Callback(1)
    \/ HandleMessage(1)
    \/ Fetch(1, AllDocs)
    \/ Finish(1)

SpecRender == Init /\ [][NextRender]_vars

-----------------------------------------------------------------------------
(* Vocabulary of the properties *)

Separators == Whitespace \cup {","}

\* tokens read off the raw text: maximal runs of characters that are no separator
TokenStarts(s) == {i \in 1..Len(s) : s[i] \notin Separators /\ (i = 1 \/ s[i - 1] \in Separators)}

TokenCount(s) == Cardinality(TokenStarts(s))

NthStart(s, n) == CHOOSE i \in TokenStarts(s) : Cardinality({j \in TokenStarts(s) : j <= i}) = n

TokenEnd(s, i) ==
    CHOOSE j \in i..Len(s) :
        /\ \A k \in i..j : s[k] \notin Separators
        /\ j = Len(s) \/ s[j + 1] \in Separators

Token(s, n) == SubSeq(s, NthStart(s, n), TokenEnd(s, NthStart(s, n)))

\* the text with its commas and spaces exchanged
SwapSeparators(s) ==
    [i \in 1..Len(s) |-> IF s[i] = "," THEN " " ELSE IF s[i] = " " THEN "," ELSE s[i]]

SignatureMatches(r) == header[r].present /\ header[r].mac = <<LINE_CHANNEL_SECRET, text[r]>>

\* the delivery has reached callback()
Received(r) == pc[r] # "idle"

\* the event has passed verification and reached handle_message
Verified(r) == pc[r] \notin {"idle", "received"} /\ resp[r] # 400

\* handle_message has taken its branch on the number of tokens
Parsed(r) == Verified(r) /\ pc[r] # "verified"

Done(r) == pc[r] = "done"

RepliesOf(r) == replies[reply_token(r)]

SentFlex(r) == \E i \in DOMAIN RepliesOf(r) : RepliesOf(r)[i].msg.type = "flex"

\* the service call or the parsing of its text raised
FetchFailed(r) ==
    /\ svcLog[r] # <<>>
    /\ svcLog[r][1].outcome.raised \/ ~svcLog[r][1].outcome.value.wellformed

FetchException(r) ==
    IF svcLog[r][1].outcome.raised THEN svcLog[r][1].outcome.exc ELSE "JSONDecodeError"

IsEmptyValue(v) == v \in {PyList(<<>>), EmptyDict, PyNone, PyInt(0), PyStr(""), PyBool(FALSE)}

IsRecordList(v) == v.t = "list" /\ Len(v.l) > 0 /\ \A i \in DOMAIN v.l : v.l[i].t = "dict"

RatingText(v) == CASE v = PyFloat(45) -> "4.5" [] v = PyInt(4) -> "4"

ExpectedBody(d) ==
    <<IF "name" \in DOMAIN d THEN d.name ELSE PyStr("unknown store"),
      PyStr("* " \o (IF "rating" \in DOMAIN d THEN RatingText(d.rating) ELSE "N/A")),
      IF "address" \in DOMAIN d THEN d.address ELSE PyStr("no address"),
      IF "description" \in DOMAIN d THEN d.description ELSE PyStr("")>>

-----------------------------------------------------------------------------
(* Properties *)

C2_ExactlyOneReply ==
    \A r \in Deliveries : (Done(r) /\ Verified(r)) => Len(RepliesOf(r)) = 1

\* C3 (as claimed): after a fetch exception the reply dispatched is the
\* "system busy" text.
C3_FetchExceptionBusy ==
    \A r \in Deliveries :
        (Done(r) /\ FetchFailed(r)) =>
            /\ RepliesOf(r) # <<>>
            /\ RepliesOf(r)[1].msg = TextMessage(BusyText)

\* C3 (amended): after a fetch exception the fetcher has logged "Gemini Error"
\* with the exception and returned the empty list; the first reply is the
\* "no results" text, and the "system busy" text follows only when that
\* reply_message call raised.
C3_FetchExceptionNoResults ==
    \A r \in Deliveries :
        (fetched[r].called /\ FetchFailed(r)) =>
            /\ log[r] # <<>>
            /\ log[r][1] = [tag |-> "Gemini Error", detail |-> FetchException(r)]
            /\ stores[r] = PyList(<<>>)
            /\ Done(r) => RepliesOf(r) # <<>>
            /\ RepliesOf(r) # <<>> => RepliesOf(r)[1].msg = TextMessage(NoResultsText)
            /\ \A i \in DOMAIN RepliesOf(r) :
                  i > 1 => /\ ~RepliesOf(r)[1].ok
                           /\ RepliesOf(r)[i].msg = TextMessage(BusyText)

C3_Witness ==
    \E r \in Deliveries :
        /\ Done(r) /\ FetchFailed(r) /\ ~svcLog[r][1].outcome.raised
        /\ RepliesOf(r) = <<[msg |-> TextMessage(NoResultsText), ok |-> TRUE]>>

\* C4 (as claimed): a delivery with a valid signature is always answered 200.
C4_ValidDeliveryGetsOK ==
    \A r \in Deliveries : (Done(r) /\ SignatureMatches(r)) => resp[r] = 200

\* C5 (as claimed): when the fetcher returned [], the single reply is the
\* "no results" text.
C5_EmptyListSingleNoResults ==
    \A r \in Deliveries :
        (Done(r) /\ fetched[r].called /\ fetched[r].result = Return(PyList(<<>>))) =>
            /\ Len(RepliesOf(r)) = 1
            /\ RepliesOf(r)[1].msg = TextMessage(NoResultsText)

\* C6: a text with fewer than 2 tokens never reaches the fetcher, and the only
\* reply made for it is the guidance text.
C6_FewTokensGuidance ==
    \A r \in Deliveries :
        (Parsed(r) /\ TokenCount(text[r]) < 2) =>
            /\ pc[r] \in {"guidance", "done"}
            /\ svcLog[r] = <<>>
            /\ ~fetched[r].called
            /\ \A i \in DOMAIN RepliesOf(r) : RepliesOf(r)[i].msg = TextMessage(GuidanceText)
            /\ Done(r) => Len(RepliesOf(r)) = 1

C6_Witness ==
    \E r \in Deliveries :
        /\ Done(r) /\ Verified(r)
        /\ Len(text[r]) >= 3 /\ TokenCount(text[r]) = 1
        /\ RepliesOf(r)[1].msg.text = GuidanceText

C8_FetcherNeverRaisesNorRetries ==
    \A r \in Deliveries :
        /\ Len(svcLog[r]) <= 1
        /\ fetched[r].called =>
              /\ Len(svcLog[r]) = 1
              /\ ~fetched[r].result.raised
              /\ exc[r].at # "fetch"
              /\ IF FetchFailed(r)
                 THEN /\ fetched[r].result.value = PyList(<<>>)
                      /\ <<[tag |-> "Gemini Error", detail |-> FetchException(r)]>> = SubSeq(log[r], 1, 1)
                 ELSE fetched[r].result.value = svcLog[r][1].outcome.value.doc

C8_Witness ==
    \E r \in Deliveries :
        /\ fetched[r].called
        /\ svcLog[r][1].outcome.raised
        /\ fetched[r].result = Return(PyList(<<>>))
        /\ pc[r] = "fetched"

\* C9: a non-empty list of records always renders, to a carousel with one card
\* per record, in order, whose four body texts are the record's fields or
\* their defaults; the carousel replied is that carousel.
C9_RenderOneToOne ==
    \A r \in Deliveries :
        (fetched[r].called /\ pc[r] # "fetched" /\ IsRecordList(stores[r])) =>
            /\ exc[r].at # "render"
            /\ carousel[r].type = "carousel"
            /\ Len(carousel[r].contents) = Len(stores[r].l)
            /\ \A i \in DOMAIN stores[r].l :
                  carousel[r].contents[i].body = ExpectedBody(stores[r].l[i].d)
            /\ \A i \in DOMAIN RepliesOf(r) :
                  RepliesOf(r)[i].msg.type = "flex" =>
                      RepliesOf(r)[i].msg.contents = carousel[r]

C9_Witness ==
    \E r \in Deliveries :
        /\ Done(r) /\ SentFlex(r)
        /\ Len(stores[r].l) = 2
        /\ DOMAIN stores[r].l[1].d = {}
        /\ DOMAIN stores[r].l[2].d = Fields
        /\ stores[r].l[2].d.rating = PyFloat(45)

\* C10: a carousel is replied only for a non-empty list of objects; an empty
\* or null value is first answered with the "no results" text and a non-empty
\* value of any other shape with the "system busy" text, neither ever with a
\* carousel.
C10_ReplyByShape ==
    \A r \in Deliveries :
        (fetched[r].called /\ ~fetched[r].result.raised) =>
            LET v == fetched[r].result.value
            IN /\ SentFlex(r) => IsRecordList(v)
               /\ carousel[r] # NoCarousel => IsRecordList(v)
               /\ Done(r) => RepliesOf(r) # <<>>
               /\ (RepliesOf(r) # <<>> /\ IsEmptyValue(v)) =>
                     RepliesOf(r)[1].msg = TextMessage(NoResultsText)
               /\ (RepliesOf(r) # <<>> /\ ~IsEmptyValue(v) /\ ~IsRecordList(v)) =>
                     RepliesOf(r)[1].msg = TextMessage(BusyText)

C10_Witness ==
    \E r \in Deliveries :
        /\ Done(r) /\ fetched[r].called
        /\ fetched[r].result = Return(FullRecord)
        /\ RepliesOf(r) = <<[msg |-> TextMessage(BusyText), ok |-> TRUE]>>

====
